---- MODULE Spec2Model ----
(***************************************************************************)
(* Model of the video generation orchestrator (generateVideo) and of the   *)
(* data-URL decoder (dataUrlToMimeAndBase64) of src/constants.ts.          *)
(*                                                                         *)
(* JavaScript runs each piece of an async function to completion between   *)
(* two awaits; every action below is one such piece: it starts when the    *)
(* awaited promise settles and ends at the next await, return or throw.    *)
(* Strings that the code parses are sequences of one-character strings.    *)
(***************************************************************************)
EXTENDS Integers, Sequences, FiniteSets, TLC

VARIABLES
    API_KEY,     \* process.env.API_KEY, the ambient credential
    blobCount,   \* number of object URLs created so far (URL.createObjectURL)
    pc,          \* per call: the await the call is suspended at
    ai,          \* per call: the apiKey the GoogleGenAI instance was built with
    sink,        \* per call: the onProgress argument, "silent" or "throwing"
    image,       \* per call: the image part of the submitted request
    operation,   \* per call: the local variable `operation`
    pollCount,   \* per call: the local variable `pollCount`
    fetchUrl,    \* per call: the URL handed to fetch
    trace,       \* per call: what the call did and was answered, in order
    result,      \* per call: how the returned promise settled
    dataUrl,     \* decoder harness: the input string
    decoded,     \* decoder harness: what dataUrlToMimeAndBase64 returned
    imageFile,   \* App: the state `image`, <<>> when null
    isLoading,   \* App: the state `isLoading`
    videoUrl,    \* App: the state `videoUrl`, <<>> when null
    error,       \* App: the state `error`, <<>> when null
    apiKeyReady, \* App: the state `apiKeyReady` (`isKeySelected`)
    pcCheck,     \* App: where checkApiKey is
    pcSelect,    \* App: where handleSelectApiKey is
    keySelected, \* App: handleSelectApiKey set the flag, and no generation
                 \*      has failed for a missing entity since
    revoked      \* the object URLs handed to URL.revokeObjectURL

uiVars == <<imageFile, isLoading, videoUrl, error, apiKeyReady, pcCheck, pcSelect,
            keySelected, revoked>>

vars == <<API_KEY, blobCount, pc, ai, sink, image, operation, pollCount, fetchUrl,
          trace, result, dataUrl, decoded, uiVars>>

callVars == <<API_KEY, blobCount, pc, ai, sink, image, operation, pollCount, fetchUrl,
              trace, result>>

----------------------------------------------------------------------------
(* Bounds *)

\* Largest number of Pending answers the service gives to one call.
MaxPolls == 3

\* Longest input string handed to the decoder harness.
MaxLen == 4

\* Longest <mime> and <payload> of a generated data:<mime>;base64,<payload>.
MaxPart == 2

\* Largest number of videos the component generates.
MaxVideos == 2

----------------------------------------------------------------------------
(* dataUrlToMimeAndBase64 *)

\* The value JavaScript calls undefined, where a string is expected.
undefined == <<"undefined">>

Alphabet == {"a", ":", ";", ","}

RECURSIVE StringsUpTo(_)
StringsUpTo(n) ==
    IF n = 0 THEN {<<>>}
    ELSE LET shorter == StringsUpTo(n - 1)
         IN  shorter \cup {Append(s, ch) : s \in shorter, ch \in Alphabet}

\* String.prototype.split(','): the pieces between the commas, all of them.
RECURSIVE split(_)
split(s) ==
    IF \A i \in 1..Len(s) : s[i] # ","
    THEN <<s>>
    ELSE LET i == CHOOSE k \in 1..Len(s) :
                      s[k] = "," /\ \A m \in 1..(k - 1) : s[m] # ","
         IN  <<SubSeq(s, 1, i - 1)>> \o split(SubSeq(s, i + 1, Len(s)))

\* The group greedy, /:(.*);/: up to the last ';' instead of the nearest.
matchGreedy(header) ==
    LET starts == {i \in 1..Len(header) :
                     header[i] = ":" /\ \E j \in (i + 1)..Len(header) : header[j] = ";"}
    IN  IF starts = {} THEN <<>>
        ELSE LET i == CHOOSE k \in starts : \A m \in starts : k <= m
                 j == CHOOSE k \in (i + 1)..Len(header) :
                          header[k] = ";" /\ \A m \in (k + 1)..Len(header) : header[m] # ";"
             IN  <<SubSeq(header, i + 1, j - 1)>>

\* header.match(/:(.*?);/): the leftmost ':' that has a ';' after it, and the
\* nearest ';' after it (the group is lazy). <<>> stands for null, <<g>> for a
\* match whose group 1 is g.
match(header) ==
    LET starts == {i \in 1..Len(header) :
                     header[i] = ":" /\ \E j \in (i + 1)..Len(header) : header[j] = ";"}
    IN  IF starts = {} THEN <<>>
        ELSE LET i == CHOOSE k \in starts : \A m \in starts : k <= m
                 j == CHOOSE k \in (i + 1)..Len(header) :
                          header[k] = ";" /\ \A m \in (i + 1)..(k - 1) : header[m] # ";"
             IN  <<SubSeq(header, i + 1, j - 1)>>

octetStream == <<"application/octet-stream">>

\* const [header, base64] = dataUrl.split(',')
mimeTypeOf(header) ==
    IF match(header) = <<>> THEN octetStream ELSE match(header)[1]

base64Of(parts) ==
    IF Len(parts) >= 2 THEN parts[2] ELSE undefined

dataUrlToMimeAndBase64(url) ==
    LET parts  == split(url)
        header == parts[1]
    IN  [mimeType |-> mimeTypeOf(header), base64 |-> base64Of(parts)]

----------------------------------------------------------------------------
(* The decoder harness: one input string, decoded once. *)

\* data:<mime>;base64,<payload>
DataUrl(mime, payload) ==
    <<"d", "a", "t", "a", ":">> \o mime
        \o <<";", "b", "a", "s", "e", "6", "4", ",">> \o payload

Parts == StringsUpTo(MaxPart)

Inputs ==
    StringsUpTo(MaxLen) \cup {DataUrl(m, p) : m \in Parts, p \in Parts}

Decode ==
    /\ decoded = <<>>
    /\ decoded' = <<dataUrlToMimeAndBase64(dataUrl)>>
    /\ UNCHANGED <<dataUrl, callVars, uiVars>>

----------------------------------------------------------------------------
(* generateVideo *)

Calls == {1, 2}

Keys == {"k1", "k2"}

SendingMsg  == "Sending request to the AI..."
WarmingMsg  == "AI is warming up its creative engines..."
CheckMsg    == "Video generation in progress... (check #"
CompleteMsg == "Video generation complete! Downloading..."
MissingMsg  == "Video generation failed: No download link found."
DownloadMsg == "Failed to download video: "

\* What the progress callback throws when it throws.
CallbackMsg == "onProgress threw"

\* Rejections of the SDK's calls and of fetch.
ServiceErrors == {"Requested entity was not found.", "Network error", ""}

StatusTexts == {"Forbidden"}

\* One entry of a call's trace.
Event(kind, msg, n) == [kind |-> kind, msg |-> msg, n |-> n]

Progress(msg, n) == Event("progress", msg, n)

\* How the promise returned by generateVideo stands.
Unsettled   == [kind |-> "unsettled", handle |-> 0, message |-> ""]
Returned(h) == [kind |-> "returned", handle |-> h, message |-> ""]
Thrown(m)   == [kind |-> "thrown", handle |-> 0, message |-> m]

\* The images the calls are made with: a PNG data URL, and a bare payload.
PngUrl ==
    DataUrl(<<"i", "m", "a", "g", "e", "/", "p", "n", "g">>, <<"A", "A", "A", "A">>)

ImageUrls == {PngUrl, <<"A", "A">>}

\* The shapes of `response` in a job descriptor. An optional member is <<>>
\* when undefined and <<v>> when it is v; generatedVideos is a list.
VideoUri == "https://example/video123"

Uris == {<<>>, <<"">>, <<VideoUri>>}

Videos == {<<>>} \cup {<<[uri |-> u]>> : u \in Uris}

GeneratedVideoLists == {<<>>} \cup {<<[video |-> v]>> : v \in Videos}

Responses ==
    {<<>>, <<[generatedVideos |-> <<>>]>>}
        \cup {<<[generatedVideos |-> <<l>>]>> : l \in GeneratedVideoLists}

\* A job descriptor: rev tells the descriptors of one job apart.
Job(done, rev, response) == [done |-> done, rev |-> rev, response |-> response]

NoJob == Job(FALSE, 0, <<>>)

\* operation.response?.generatedVideos?.[0]?.video?.uri
DownloadLink(op) ==
    IF op.response = <<>> THEN <<>>
    ELSE LET generatedVideos == op.response[1].generatedVideos
         IN  IF generatedVideos = <<>> THEN <<>>
             ELSE IF Len(generatedVideos[1]) = 0 THEN <<>>
             ELSE LET video == generatedVideos[1][1].video
                  IN  IF video = <<>> THEN <<>> ELSE video[1].uri

\* A test for undefined alone, which lets the empty string through.
NoLinkUndefinedOnly(downloadLink) == downloadLink = <<>>

\* !downloadLink
NoLink(downloadLink) == downloadLink = <<>> \/ downloadLink = <<"">>

\* A loop that tests after its first turn instead of before it.
StillPendingAfterFirstTurn(op) == ~op.done \/ op.rev = 1

\* A loop that gives up after its second turn.
StillPendingWithLimit(op) == ~op.done /\ op.rev <= 2

\* while (!operation.done)
StillPending(op) == ~op.done

\* `${downloadLink}&key=${process.env.API_KEY}`
UrlWithKey(downloadLink, key) == downloadLink \o "&key=" \o key

----------------------------------------------------------------------------
(* The body of generateVideo, piece by piece. A piece works on the call's *)
(* locals l = [pc, pollCount, fetchUrl, trace, result]; pc = "failed" is   *)
(* an exception on its way out of the function.                            *)

\* The counter a variable of the module, one for all the calls.
LocalsWithSharedCounter(c) ==
    [pc |-> pc[c], pollCount |-> pollCount[1] + pollCount[2],
     fetchUrl |-> fetchUrl[c], trace |-> trace[c], result |-> result[c]]

Locals(c) ==
    [pc |-> pc[c], pollCount |-> pollCount[c], fetchUrl |-> fetchUrl[c],
     trace |-> trace[c], result |-> result[c]]

Throw(l, message) ==
    [l EXCEPT !.pc = "failed", !.result = Thrown(message),
              !.trace = Append(@, Event("throw", message, 0))]

\* What the awaited promise resolved with, as the call sees it.
Resolved(l, kind, msg, n) ==
    [l EXCEPT !.trace = Append(@, Event(kind, msg, n))]

Status(op) == IF op.done THEN "Done" ELSE "Pending"

\* operation = await ...: the job descriptor op arrives.
Assigned(l, op) == Resolved(l, "answer", Status(op), op.rev)

\* return URL.createObjectURL(videoBlob)
Return(l, handle) ==
    [l EXCEPT !.pc = "returned", !.result = Returned(handle),
              !.trace = Append(@, Event("return", "", handle))]

\* Suspend at `await`, the awaited operation having been started.
Await(l, kind, n) ==
    [l EXCEPT !.pc = kind, !.trace = Append(@, Event(kind, "", n))]

\* Whether an invocation of call c's onProgress may throw.
MayThrow(c) == IF sink[c] = "throwing" THEN BOOLEAN ELSE {FALSE}

\* onProgress(msg): the callback is the caller's, and may throw.
onProgress(l, msg, n, throws) ==
    LET called == [l EXCEPT !.trace = Append(@, Progress(msg, n))]
    IN  IF throws THEN Throw(called, CallbackMsg) ELSE called

\* The counter incremented after the message instead of before it.
LoopBodyPostIncrement(l, throws) ==
    LET reported == onProgress(l, CheckMsg, l.pollCount, throws)
    IN  IF reported.pc = "failed" THEN reported
        ELSE Await([reported EXCEPT !.pollCount = @ + 1], "delay", 0)

\* A turn of the loop that does not wait before asking again.
LoopBodyNoDelay(l, throws) ==
    LET counted  == [l EXCEPT !.pollCount = @ + 1]
        reported == onProgress(counted, CheckMsg, counted.pollCount, throws)
    IN  IF reported.pc = "failed" THEN reported
        ELSE Await(reported, "poll", 0)

\* A turn of the loop that goes on when the callback throws.
LoopBodyGuarded(l, throws) ==
    LET counted  == [l EXCEPT !.pollCount = @ + 1]
        reported == onProgress(counted, CheckMsg, counted.pollCount, throws)
    IN  Await(reported, "delay", 0)

\* Lines 63-65: one turn of the loop, up to the await of the delay.
LoopBody(l, throws) ==
    LET counted  == [l EXCEPT !.pollCount = @ + 1]
        reported == onProgress(counted, CheckMsg, counted.pollCount, throws)
    IN  IF reported.pc = "failed" THEN reported
        ELSE Await(reported, "delay", 0)

\* Lines 71-76: the download link, and the fetch of it.
Download(l, op, key) ==
    LET downloadLink == DownloadLink(op)
    IN  IF NoLink(downloadLink) THEN Throw(l, MissingMsg)
        ELSE Await([l EXCEPT !.fetchUrl = UrlWithKey(downloadLink[1], key)],
                   "fetch", 0)

\* The download started without the completion message.
AfterLoopUnannounced(l, op, key, throws) == Download(l, op, key)

\* Lines 69-76: after the loop.
AfterLoop(l, op, key, throws) ==
    LET reported == onProgress(l, CompleteMsg, 0, throws)
    IN  IF reported.pc = "failed" THEN reported
        ELSE Download(reported, op, key)

\* The response used without looking at its status.
CheckOkOmitted(l, ok, statusText) == Await(l, "blob", 0)

\* The download tried again when it did not succeed.
CheckOkRetry(l, ok, statusText) ==
    IF ~ok THEN Await(l, "fetch", 0)
    ELSE Await(l, "blob", 0)

\* Lines 77-80: the test of the response fetch resolved with.
CheckOk(l, ok, statusText) ==
    IF ~ok THEN Throw(l, DownloadMsg \o statusText)
    ELSE Await(l, "blob", 0)

\* Lines 62-76: the loop test with `operation` just assigned, and what
\* follows it up to the next await.
LoopTest(l, op, key, throws) ==
    IF StillPending(op) THEN LoopBody(l, throws)
    ELSE AfterLoop(l, op, key, throws)

\* Both fixed messages emitted before the submission.
SubmitAfterBothMessages(l, throws) ==
    LET reported == onProgress(l, SendingMsg, 0, throws)
    IN  IF reported.pc = "failed" THEN reported
        ELSE Await(onProgress(reported, WarmingMsg, 0, FALSE), "submit", 0)

\* Lines 43-45: the first message, and the submission.
Submit(l, throws) ==
    LET reported == onProgress(l, SendingMsg, 0, throws)
    IN  IF reported.pc = "failed" THEN reported
        ELSE Await(reported, "submit", 0)

\* Lines 59-76: the second message, and the loop entered.
Submitted(l, op, key, throws1, throws2) ==
    LET reported == onProgress(l, WarmingMsg, 0, throws1)
    IN  IF reported.pc = "failed" THEN reported
        ELSE LoopTest(reported, op, key, throws2)

\* Write the locals back.
Store(c, l) ==
    /\ pc' = [pc EXCEPT ![c] = l.pc]
    /\ pollCount' = [pollCount EXCEPT ![c] = l.pollCount]
    /\ fetchUrl' = [fetchUrl EXCEPT ![c] = l.fetchUrl]
    /\ trace' = [trace EXCEPT ![c] = l.trace]
    /\ result' = [result EXCEPT ![c] = l.result]

\* The number of job descriptors the service has sent to call c.
Sent(c) ==
    Cardinality({i \in 1..Len(trace[c]) : trace[c][i].kind \in {"submit", "poll"}})

\* The answers the service may give to the request call c is waiting for.
\* The service reports Pending at most MaxPolls times.
Answers(c) ==
    {Job(TRUE, Sent(c), r) : r \in Responses}
        \cup (IF pollCount[c] < MaxPolls THEN {Job(FALSE, Sent(c), <<>>)} ELSE {})

----------------------------------------------------------------------------
(* Actions *)

\* The key of the first call kept for the calls after it.
ApiKeyCached(c) ==
    IF \E d \in Calls : ai[d] # ""
    THEN ai[CHOOSE d \in Calls : ai[d] # ""]
    ELSE API_KEY

\* Line 39: new GoogleGenAI({ apiKey: process.env.API_KEY }), in every call.
ApiKeyAtCall(c) == API_KEY

\* Lines 37-45: the call, up to the await of the submission.
generateVideo(c) ==
    /\ pc[c] = "idle"
    /\ \E url \in ImageUrls, callback \in {"silent", "throwing"} :
         /\ sink' = [sink EXCEPT ![c] = callback]
         /\ ai' = [ai EXCEPT ![c] = ApiKeyAtCall(c)]
         /\ image' = [image EXCEPT ![c] = dataUrlToMimeAndBase64(url)]
         /\ \E throws \in (IF callback = "throwing" THEN BOOLEAN ELSE {FALSE}) :
              Store(c, Submit(Locals(c), throws))
    /\ UNCHANGED <<API_KEY, blobCount, operation, dataUrl, decoded>>

\* A call of generateVideo by a caller other than the component.
Call(c) == generateVideo(c) /\ UNCHANGED uiVars

\* Lines 45-76: ai.models.generateVideos resolves with a job descriptor.
SubmitResolves(c) ==
    /\ pc[c] = "submit"
    /\ \E op \in Answers(c), throws1 \in MayThrow(c), throws2 \in MayThrow(c) :
         /\ operation' = [operation EXCEPT ![c] = op]
         /\ Store(c, Submitted(Assigned(Locals(c), op), op, API_KEY, throws1, throws2))
    /\ UNCHANGED <<API_KEY, blobCount, ai, sink, image, dataUrl, decoded, uiVars>>

\* Line 45: ai.models.generateVideos rejects.
SubmitRejects(c) ==
    /\ pc[c] = "submit"
    /\ \E message \in ServiceErrors : Store(c, Throw(Locals(c), message))
    /\ UNCHANGED <<API_KEY, blobCount, ai, sink, image, operation, dataUrl, decoded, uiVars>>

\* The descriptor of the submission handed back at every re-fetch.
EchoedFirst(c) == 1

\* Line 66: { operation: operation }, the descriptor handed back.
Echoed(c) == operation[c].rev

\* Lines 65-66: the delay is over; the status is fetched again.
DelayElapses(c) ==
    /\ pc[c] = "delay"
    /\ Store(c, Await(Locals(c), "poll", Echoed(c)))
    /\ UNCHANGED <<API_KEY, blobCount, ai, sink, image, operation, dataUrl, decoded, uiVars>>

\* Lines 66, 62-76: ai.operations.getVideosOperation resolves.
PollResolves(c) ==
    /\ pc[c] = "poll"
    /\ \E op \in Answers(c), throws \in MayThrow(c) :
         /\ operation' = [operation EXCEPT ![c] = op]
         /\ Store(c, LoopTest(Assigned(Locals(c), op), op, API_KEY, throws))
    /\ UNCHANGED <<API_KEY, blobCount, ai, sink, image, dataUrl, decoded, uiVars>>

\* Line 66: ai.operations.getVideosOperation rejects.
PollRejects(c) ==
    /\ pc[c] = "poll"
    /\ \E message \in ServiceErrors : Store(c, Throw(Locals(c), message))
    /\ UNCHANGED <<API_KEY, blobCount, ai, sink, image, operation, dataUrl, decoded, uiVars>>

\* Lines 76-80: fetch resolves with a response, ok or not.
FetchResolves(c) ==
    /\ pc[c] = "fetch"
    /\ \/ Store(c, CheckOk(Resolved(Locals(c), "fetched", "OK", 0), TRUE, "OK"))
       \/ \E statusText \in StatusTexts :
            Store(c, CheckOk(Resolved(Locals(c), "fetched", statusText, 0),
                             FALSE, statusText))
    /\ UNCHANGED <<API_KEY, blobCount, ai, sink, image, operation, dataUrl, decoded, uiVars>>

\* Line 76: fetch rejects.
FetchRejects(c) ==
    /\ pc[c] = "fetch"
    /\ Store(c, Throw(Locals(c), "Failed to fetch"))
    /\ UNCHANGED <<API_KEY, blobCount, ai, sink, image, operation, dataUrl, decoded, uiVars>>

\* Lines 80-82: the body is read; the object URL is made and returned.
BlobResolves(c) ==
    /\ pc[c] = "blob"
    /\ blobCount' = blobCount + 1
    /\ Store(c, Return(Locals(c), blobCount + 1))
    /\ UNCHANGED <<API_KEY, ai, sink, image, operation, dataUrl, decoded, uiVars>>

\* Line 80: reading the body rejects.
BlobRejects(c) ==
    /\ pc[c] = "blob"
    /\ Store(c, Throw(Locals(c), "Failed to fetch"))
    /\ UNCHANGED <<API_KEY, blobCount, ai, sink, image, operation, dataUrl, decoded, uiVars>>

\* The user selects another key: the host changes process.env.API_KEY.
SelectKey ==
    /\ \E key \in Keys \ {API_KEY} : API_KEY' = key
    /\ UNCHANGED <<blobCount, pc, ai, sink, image, operation, pollCount, fetchUrl,
                   trace, result, dataUrl, decoded, uiVars>>

----------------------------------------------------------------------------
(* Specifications *)

NoImage == [mimeType |-> undefined, base64 |-> undefined]

InitCalls ==
    /\ API_KEY = "k1"
    /\ blobCount = 0
    /\ pc = [c \in Calls |-> "idle"]
    /\ ai = [c \in Calls |-> ""]
    /\ sink = [c \in Calls |-> "silent"]
    /\ image = [c \in Calls |-> NoImage]
    /\ operation = [c \in Calls |-> NoJob]
    /\ pollCount = [c \in Calls |-> 0]
    /\ fetchUrl = [c \in Calls |-> ""]
    /\ trace = [c \in Calls |-> <<>>]
    /\ result = [c \in Calls |-> Unsettled]

\* The component is mounted: its state is the useState defaults (App.tsx
\* lines 102-109), and the effect of lines 113-125 has called checkApiKey,
\* which awaits hasSelectedApiKey().
InitApp ==
    /\ imageFile = <<>>
    /\ isLoading = FALSE
    /\ videoUrl = <<>>
    /\ error = <<>>
    /\ apiKeyReady = FALSE
    /\ pcCheck = "pending"
    /\ pcSelect = "idle"
    /\ keySelected = FALSE
    /\ revoked = {}

Init ==
    /\ InitCalls
    /\ InitApp
    /\ dataUrl = <<>>
    /\ decoded = <<>>

Step(c) ==
    \/ Call(c)
    \/ SubmitResolves(c)
    \/ SubmitRejects(c)
    \/ DelayElapses(c)
    \/ PollResolves(c)
    \/ PollRejects(c)
    \/ FetchResolves(c)
    \/ FetchRejects(c)
    \/ BlobResolves(c)
    \/ BlobRejects(c)

\* One call of generateVideo, alone, while the ambient key may change.
Next == Step(1) \/ SelectKey

Spec == Init /\ [][Next]_vars

\* What the PNG data URL is decoded to.
PngImage == dataUrlToMimeAndBase64(PngUrl)

\* The calls are made with the PNG image and a callback that does not throw.
PlainCalls ==
    \A c \in Calls :
        /\ sink[c] = "silent"
        /\ image[c] \in {NoImage, PngImage}

\* One call whose awaited promises all settle: the timer fires, the requests
\* are answered, and the service, which reports Pending at most MaxPolls
\* times, reports Done in the end.
SpecLive == Init /\ [][Next]_vars /\ WF_vars(Step(1))

\* Two such calls of generateVideo, one after the other or overlapping,
\* while the ambient key may change.
CallPlain(c) == Call(c) /\ PlainCalls'

NextTwo ==
    \/ \E c \in Calls :
         \/ CallPlain(c)
         \/ SubmitResolves(c)
         \/ SubmitRejects(c)
         \/ DelayElapses(c)
         \/ PollResolves(c)
         \/ PollRejects(c)
         \/ FetchResolves(c)
         \/ FetchRejects(c)
         \/ BlobResolves(c)
         \/ BlobRejects(c)
    \/ SelectKey

SpecTwo == Init /\ [][NextTwo]_vars

----------------------------------------------------------------------------
(* The component App (App.tsx; part_000 is the same component with the     *)
(* flag named isKeySelected). Every generateVideo it calls is call 1.      *)

UploadMsg     == "Please upload an image to generate a video."
UnknownMsg    == "An unknown error occurred."
NotFoundMsg   == "Requested entity was not found"
InvalidKeyMsg ==
    "API Key is invalid or not found. Please select a valid API key to continue."
DialogMsg     == "There was an issue with the API key selection dialog."

\* What may stand before and after the searched text in a message.
Prefixes == {"", "ApiError: "}
Suffixes == {"", "."}

\* The message compared with the searched text as a whole.
includesWhole(message, searched) == message = searched

\* message.includes(searched)
includes(message, searched) ==
    \E before \in Prefixes, after \in Suffixes :
        message = before \o searched \o after

\* The images the user uploads.
ImageFiles == {<<PngUrl>>}

\* generateVideo has settled and the rest of handleGenerate, a microtask,
\* runs before any other handler.
Queued == pc[1] \in {"returned", "failed"}

\* The await of line 182 is over: the call's promise and locals are gone.
Forget(c) ==
    /\ pc' = [pc EXCEPT ![c] = "idle"]
    /\ ai' = [ai EXCEPT ![c] = ""]
    /\ sink' = [sink EXCEPT ![c] = "silent"]
    /\ image' = [image EXCEPT ![c] = NoImage]
    /\ operation' = [operation EXCEPT ![c] = NoJob]
    /\ pollCount' = [pollCount EXCEPT ![c] = 0]
    /\ fetchUrl' = [fetchUrl EXCEPT ![c] = ""]
    /\ trace' = [trace EXCEPT ![c] = <<>>]
    /\ result' = [result EXCEPT ![c] = Unsettled]

\* Lines 116-117: hasSelectedApiKey() resolves.
CheckApiKeyResolves ==
    /\ pcCheck = "pending"
    /\ ~Queued
    /\ \E hasKey \in BOOLEAN : apiKeyReady' = hasKey
    /\ pcCheck' = "done"
    /\ UNCHANGED <<callVars, imageFile, isLoading, videoUrl, error, pcSelect,
                   keySelected, revoked, dataUrl, decoded>>

\* Lines 118-122: hasSelectedApiKey() rejects, or there is no host to ask.
CheckApiKeyRejects ==
    /\ pcCheck = "pending"
    /\ ~Queued
    /\ apiKeyReady' = FALSE
    /\ pcCheck' = "done"
    /\ UNCHANGED <<callVars, imageFile, isLoading, videoUrl, error, pcSelect,
                   keySelected, revoked, dataUrl, decoded>>

\* Lines 142-144: the button of the key selection screen (lines 197-200, shown
\* while the flag is false) is pressed; one dialog is open at a time.
handleSelectApiKey ==
    /\ ~apiKeyReady
    /\ pcSelect = "idle"
    /\ ~Queued
    /\ pcSelect' = "open"
    /\ UNCHANGED <<callVars, imageFile, isLoading, videoUrl, error, apiKeyReady,
                   pcCheck, keySelected, revoked, dataUrl, decoded>>

\* Lines 144-146: openSelectKey() resolves; the host has set the key.
OpenSelectKeyResolves ==
    /\ pcSelect = "open"
    /\ ~Queued
    /\ \E key \in Keys : API_KEY' = key
    /\ apiKeyReady' = TRUE
    /\ keySelected' = TRUE
    /\ pcSelect' = "idle"
    /\ UNCHANGED <<blobCount, pc, ai, sink, image, operation, pollCount, fetchUrl,
                   trace, result, imageFile, isLoading, videoUrl, error, pcCheck,
                   revoked, dataUrl, decoded>>

\* Lines 147-150: openSelectKey() rejects.
OpenSelectKeyRejects ==
    /\ pcSelect = "open"
    /\ ~Queued
    /\ error' = <<DialogMsg>>
    /\ pcSelect' = "idle"
    /\ UNCHANGED <<callVars, imageFile, isLoading, videoUrl, apiKeyReady, pcCheck,
                   keySelected, revoked, dataUrl, decoded>>

\* Lines 154-164 and 243: an image is uploaded, or the image is removed.
setImage ==
    /\ apiKeyReady
    /\ ~Queued
    /\ \E file \in (ImageFiles \cup {<<>>}) \ {imageFile} : imageFile' = file
    /\ UNCHANGED <<callVars, isLoading, videoUrl, error, apiKeyReady, pcCheck,
                   pcSelect, keySelected, revoked, dataUrl, decoded>>

\* Lines 166-182: handleGenerate up to its await. The button is on the main
\* screen and is disabled during a generation (line 288); the handler tests
\* the image itself (line 167). The callback is setLoadingMessage, which
\* does not throw.
handleGenerate ==
    /\ apiKeyReady
    /\ ~isLoading
    /\ ~Queued
    /\ blobCount < MaxVideos
    /\ IF imageFile = <<>>
       THEN /\ error' = <<UploadMsg>>
            /\ UNCHANGED <<callVars, isLoading, videoUrl>>
       ELSE /\ error' = <<>>
            /\ videoUrl' = <<>>
            /\ isLoading' = TRUE
            /\ generateVideo(1)
            /\ sink'[1] = "silent"
            /\ image'[1] = dataUrlToMimeAndBase64(imageFile[1])
    /\ UNCHANGED <<imageFile, apiKeyReady, pcCheck, pcSelect, keySelected, revoked,
                   dataUrl, decoded>>

\* Lines 182-183 and 192-194: generateVideo returned a URL.
GenerateReturns ==
    /\ isLoading
    /\ pc[1] = "returned"
    /\ videoUrl' = <<result[1].handle>>
    /\ isLoading' = FALSE
    /\ Forget(1)
    /\ UNCHANGED <<API_KEY, blobCount, imageFile, error, apiKeyReady, pcCheck,
                   pcSelect, keySelected, revoked, dataUrl, decoded>>

\* The catch block without the finally block after it.
GenerateThrowsNoFinally ==
    /\ isLoading
    /\ pc[1] = "failed"
    /\ error' = <<result[1].message>>
    /\ Forget(1)
    /\ UNCHANGED <<API_KEY, blobCount, imageFile, isLoading, videoUrl, apiKeyReady,
                   pcCheck, pcSelect, keySelected, revoked, dataUrl, decoded>>

\* Lines 184-194: generateVideo threw.
GenerateThrows ==
    /\ isLoading
    /\ pc[1] = "failed"
    /\ LET errorMessage ==
               IF result[1].message = "" THEN UnknownMsg ELSE result[1].message
       IN  IF includes(errorMessage, NotFoundMsg)
           THEN /\ error' = <<InvalidKeyMsg>>
                /\ apiKeyReady' = FALSE
                /\ keySelected' = FALSE
           ELSE /\ error' = <<errorMessage>>
                /\ UNCHANGED <<apiKeyReady, keySelected>>
    /\ isLoading' = FALSE
    /\ Forget(1)
    /\ UNCHANGED <<API_KEY, blobCount, imageFile, videoUrl, pcCheck, pcSelect,
                   revoked, dataUrl, decoded>>

\* The object URLs made and not revoked.
Unreleased == (1..blobCount) \ revoked

\* The component and the generations it starts.
NextApp ==
    \/ CheckApiKeyResolves
    \/ CheckApiKeyRejects
    \/ handleSelectApiKey
    \/ OpenSelectKeyResolves
    \/ OpenSelectKeyRejects
    \/ setImage
    \/ handleGenerate
    \/ SubmitResolves(1)
    \/ SubmitRejects(1)
    \/ DelayElapses(1)
    \/ PollResolves(1)
    \/ PollRejects(1)
    \/ FetchResolves(1)
    \/ FetchRejects(1)
    \/ BlobResolves(1)
    \/ BlobRejects(1)
    \/ GenerateReturns
    \/ GenerateThrows

SpecApp == Init /\ [][NextApp]_vars

\* What a generation in flight does next: its awaited promises settle, and
\* the rest of handleGenerate runs.
Generation ==
    \/ SubmitResolves(1)
    \/ SubmitRejects(1)
    \/ DelayElapses(1)
    \/ PollResolves(1)
    \/ PollRejects(1)
    \/ FetchResolves(1)
    \/ FetchRejects(1)
    \/ BlobResolves(1)
    \/ BlobRejects(1)
    \/ GenerateReturns
    \/ GenerateThrows

SpecAppLive == Init /\ [][NextApp]_vars /\ WF_vars(Generation)

\* The decoder applied to every input string.
InitDecode ==
    /\ InitCalls
    /\ InitApp
    /\ dataUrl \in Inputs
    /\ decoded = <<>>

NextDecode == Decode

SpecDecode == InitDecode /\ [][NextDecode]_vars

----------------------------------------------------------------------------
(* Reading a call's trace *)

Indices(c, kind) == {i \in 1..Len(trace[c]) : trace[c][i].kind = kind}

Count(c, kind) == Cardinality(Indices(c, kind))

IsProgress(e) == e.kind = "progress"

IsCheck(e) == e.kind = "progress" /\ e.msg = CheckMsg

\* The progress messages call c has emitted, in order.
ProgressOf(c) == SelectSeq(trace[c], IsProgress)

\* The check messages call c has emitted, in order.
ChecksOf(c) == SelectSeq(trace[c], IsCheck)

\* The statuses call c has observed: Pending ones, and whether the first is Done.
PendingAnswers(c) ==
    Cardinality({i \in Indices(c, "answer") : trace[c][i].msg = "Pending"})

DoneAnswers(c) == {i \in Indices(c, "answer") : trace[c][i].msg = "Done"}

FirstAnswerDone(c) == \E i \in DoneAnswers(c) : trace[c][i].n = 1

Silent(c) == sink[c] = "silent"

----------------------------------------------------------------------------
(* C1 *)

\* C1: when the submission is answered with a job that is already Done, the
\* call never awaits the polling delay and never fetches the status again, and
\* when it returns (the download having succeeded) it returns a handle.
C1_ImmediateDoneSkipsPolling ==
    \A c \in Calls :
        FirstAnswerDone(c) =>
            /\ Count(c, "delay") = 0
            /\ Count(c, "poll") = 0
            /\ pc[c] \in {"fetch", "blob", "returned", "failed"}
            /\ pc[c] = "returned" =>
                 /\ result[c].kind = "returned"
                 /\ result[c].handle >= 1
                 /\ \E i \in Indices(c, "fetched") : trace[c][i].msg = "OK"

C1_Witness == FirstAnswerDone(1) /\ pc[1] = "returned"

----------------------------------------------------------------------------
(* C2 *)

\* C2: the check messages carry the counters 1, 2, ..., in that order, none
\* skipped or repeated, and with a callback that does not throw there is one
\* for each Pending status observed: N of them when the job is reported
\* Pending N times before it is reported Done.
C2_CheckCounters ==
    \A c \in Calls :
        /\ \A k \in 1..Len(ChecksOf(c)) : ChecksOf(c)[k].n = k
        /\ Len(ChecksOf(c)) <= PendingAnswers(c)
        /\ Silent(c) => Len(ChecksOf(c)) = PendingAnswers(c)

C2_Witness ==
    /\ Silent(1)
    /\ PendingAnswers(1) = 2
    /\ DoneAnswers(1) # {}
    /\ Len(ChecksOf(1)) = 2
    /\ pc[1] \in {"returned", "failed"}

----------------------------------------------------------------------------
(* C3 *)

\* C3: the delay is awaited once for each Pending status observed, and the
\* events are in order: the submission messages, then for each cycle k the
\* message check #k, one delay, one status re-fetch; the completion message
\* comes after the last re-fetch, and every check message lies between the
\* submission messages and the completion message.
C3_DelaysAndOrder ==
    \A c \in Calls :
        LET t == trace[c]
            completes == {i \in Indices(c, "progress") : t[i].msg = CompleteMsg}
            warmings  == {i \in Indices(c, "progress") : t[i].msg = WarmingMsg}
            sendings  == {i \in Indices(c, "progress") : t[i].msg = SendingMsg}
            checks    == {i \in Indices(c, "progress") : t[i].msg = CheckMsg}
        IN  /\ Count(c, "delay") <= PendingAnswers(c)
            /\ Silent(c) => Count(c, "delay") = PendingAnswers(c)
            /\ Count(c, "poll") <= Count(c, "delay")
            /\ \A i \in checks :
                 /\ i + 1 <= Len(t) => t[i + 1].kind \in {"delay", "throw"}
                 /\ i + 2 <= Len(t) => t[i + 2].kind = "poll"
                 /\ \E j \in sendings : j < i
                 /\ \E j \in warmings : j < i
                 /\ \A j \in completes : i < j
            /\ \A i \in Indices(c, "delay") :
                 /\ i - 1 \in checks
                 /\ i + 1 <= Len(t) => t[i + 1].kind = "poll"
            /\ \A i \in Indices(c, "poll") : i - 1 \in Indices(c, "delay")
            /\ \A j \in completes :
                 /\ \A i \in Indices(c, "poll") \cup Indices(c, "delay") : i < j
                 /\ \E i \in DoneAnswers(c) : i < j
            /\ Cardinality(completes) <= 1

C3_Witness ==
    /\ PendingAnswers(1) = 2
    /\ Count(1, "delay") = 2
    /\ Count(1, "poll") = 2
    /\ \E i \in Indices(1, "progress") : trace[1][i].msg = CompleteMsg

----------------------------------------------------------------------------
(* C4 *)

\* The one response shape that carries a download reference.
FullResponse(uri) ==
    <<[generatedVideos |-> << <<[video |-> <<[uri |-> <<uri>>]>>]>> >>]>>

\* The job is reported Done and no non-empty download reference is in it.
DoneWithoutReference(c) ==
    operation[c].done /\ operation[c].response # FullResponse(VideoUri)

\* C4: when the job reported Done has an absent or empty download reference,
\* the call fails (with the missing-asset error unless the callback threw
\* first), no fetch is attempted and no further delay or re-fetch follows the
\* Done status; a fetch is attempted only with a non-empty reference.
C4_MissingAssetIsTerminal ==
    \A c \in Calls :
        /\ DoneWithoutReference(c) =>
             /\ pc[c] = "failed"
             /\ Count(c, "fetch") = 0
             /\ Silent(c) => result[c] = Thrown(MissingMsg)
             /\ result[c].message \in {MissingMsg, CallbackMsg}
             /\ \A i \in DoneAnswers(c) :
                  \A j \in Indices(c, "poll") \cup Indices(c, "delay") : j < i
        /\ Count(c, "fetch") > 0 =>
             /\ operation[c].done
             /\ operation[c].response = FullResponse(VideoUri)
             /\ \E key \in Keys : fetchUrl[c] = VideoUri \o "&key=" \o key

C4_Witness ==
    /\ Silent(1)
    /\ operation[1].done
    /\ operation[1].response = FullResponse("")
    /\ result[1] = Thrown(MissingMsg)

----------------------------------------------------------------------------
(* C5 *)

\* C5: when the download fetch resolves with a non-success status, the call
\* fails with the download error, the body is never read and no handle is
\* made or returned.
C5_DownloadFailure ==
    \A c \in Calls :
        \A i \in Indices(c, "fetched") :
            trace[c][i].msg # "OK" =>
                /\ pc[c] = "failed"
                /\ result[c] = Thrown(DownloadMsg \o trace[c][i].msg)
                /\ Count(c, "blob") = 0
                /\ Count(c, "return") = 0
                /\ result[c].handle = 0

C5_Witness ==
    \E i \in Indices(1, "fetched") : trace[1][i].msg = "Forbidden" /\ pc[1] = "failed"

----------------------------------------------------------------------------
(* C6 *)

\* The call was answered Done at once and has returned a handle.
ImmediateSuccess(c) == FirstAnswerDone(c) /\ pc[c] = "returned"

\* C6 as stated: with an immediate Done and a successful download exactly two
\* progress messages are emitted, the request message and the completion
\* message.
C6_Original ==
    \A c \in Calls :
        ImmediateSuccess(c) =>
            ProgressOf(c) \in {<<Progress(SendingMsg, 0), Progress(CompleteMsg, 0)>>,
                               <<Progress(WarmingMsg, 0), Progress(CompleteMsg, 0)>>}

\* C6, amended: with an immediate Done and a successful download exactly
\* three progress messages are emitted, in this order: 'Sending request to the
\* AI...', 'AI is warming up its creative engines...', 'Video generation
\* complete! Downloading...'.
C6_ThreeMessages ==
    \A c \in Calls :
        ImmediateSuccess(c) =>
            ProgressOf(c) = <<Progress(SendingMsg, 0), Progress(WarmingMsg, 0),
                              Progress(CompleteMsg, 0)>>

C6_Witness == ImmediateSuccess(1) /\ Len(ProgressOf(1)) = 3

----------------------------------------------------------------------------
(* C7 *)

\* The submission of call c was rejected.
SubmitFailed(c) ==
    /\ Count(c, "submit") = 1
    /\ Count(c, "answer") = 0
    /\ pc[c] = "failed"

\* C7 as stated: no progress message is emitted before the submission has
\* returned a job, so a submission that fails produces no progress message.
C7_Original ==
    \A c \in Calls :
        /\ \A i \in Indices(c, "progress") : \E j \in Indices(c, "answer") : j < i
        /\ SubmitFailed(c) => ProgressOf(c) = <<>>

\* C7, amended: exactly one progress message, 'Sending request to the AI...',
\* is emitted before the submission is issued; every other progress message,
\* 'AI is warming up its creative engines...' first, is emitted only after
\* the submission has returned a job; a submission that fails has produced
\* exactly that one message.
C7_OnlySendingBeforeSubmission ==
    \A c \in Calls :
        LET t == trace[c]
        IN  /\ Len(t) >= 1 => t[1] = Progress(SendingMsg, 0)
            /\ \A i \in Indices(c, "submit") : i = 2
            /\ \A i \in Indices(c, "progress") :
                 i > 1 => \E j \in Indices(c, "answer") : j < i /\ t[j].n = 1
            /\ \A i \in Indices(c, "progress") :
                 t[i].msg = WarmingMsg => i - 1 \in Indices(c, "answer")
            /\ SubmitFailed(c) => ProgressOf(c) = <<Progress(SendingMsg, 0)>>

C7_Witness == SubmitFailed(1) /\ Len(ProgressOf(1)) = 1

----------------------------------------------------------------------------
(* C10 *)

NetworkKinds == {"submit", "poll", "fetch", "blob"}

\* C10: a call submits at most once and fetches the download at most once,
\* and a failure is the last thing the call does: nothing, and so no
\* submission, status re-fetch or download, follows it.
C10_FailureIsTerminal ==
    \A c \in Calls :
        /\ Count(c, "submit") <= 1
        /\ Count(c, "fetch") <= 1
        /\ \A i \in Indices(c, "throw") : i = Len(trace[c])
        /\ pc[c] = "failed" <=> Count(c, "throw") = 1
        /\ pc[c] = "failed" => result[c].kind = "thrown"
        /\ pc[c] \in NetworkKinds => trace[c][Len(trace[c])].kind = pc[c]

C10_Witness ==
    /\ pc[1] = "failed"
    /\ Count(1, "submit") = 1
    /\ Count(1, "poll") >= 1
    /\ Count(1, "fetch") = 1
    /\ result[1].message = DownloadMsg \o "Forbidden"

----------------------------------------------------------------------------
(* C8, C9: the decoder *)

Has(s, ch) == \E i \in 1..Len(s) : s[i] = ch

\* The index of the first ch in s, which has one.
First(s, ch) == CHOOSE i \in 1..Len(s) : s[i] = ch /\ \A j \in 1..(i - 1) : s[j] # ch

\* s up to its first ch, all of s when it has none.
BeforeFirst(s, ch) == IF Has(s, ch) THEN SubSeq(s, 1, First(s, ch) - 1) ELSE s

\* s after its first ch.
AfterFirst(s, ch) == SubSeq(s, First(s, ch) + 1, Len(s))

Result(mime, payload) == [mimeType |-> mime, base64 |-> payload]

\* C8 as stated: data:<mime>;base64,<payload> is decoded to exactly <mime> and
\* <payload>, for mime strings that may contain ':' and ';' and payloads that
\* may be empty (neither holds a comma).
C8_Original ==
    \A m \in Parts, p \in Parts :
        (dataUrl = DataUrl(m, p) /\ decoded # <<>> /\ ~Has(m, ",") /\ ~Has(p, ","))
            => decoded[1] = Result(m, p)

\* C8, amended: data:<mime>;base64,<payload>, neither part holding a comma,
\* is decoded to base64 = <payload> and to mimeType = <mime> up to its first
\* ';': exactly <mime> when <mime> holds no ';' (it may hold ':', and the
\* payload may be empty), and only the part before the first ';' otherwise.
C8_MimeUpToFirstSemicolon ==
    \A m \in Parts, p \in Parts :
        (dataUrl = DataUrl(m, p) /\ decoded # <<>> /\ ~Has(m, ",") /\ ~Has(p, ","))
            => /\ decoded[1] = Result(BeforeFirst(m, ";"), p)
               /\ ~Has(m, ";") => decoded[1] = Result(m, p)

C8_Witness ==
    /\ dataUrl = DataUrl(<<":", "a">>, <<>>)
    /\ decoded = <<Result(<<":", "a">>, <<>>)>>

\* The header, the part of the input before its first comma, holds a ':' with
\* a ';' somewhere after it.
HeaderPattern(s) ==
    LET header == BeforeFirst(s, ",")
    IN  \E i \in 1..Len(header) :
            header[i] = ":" /\ \E j \in (i + 1)..Len(header) : header[j] = ";"

\* C9 as stated: without a ':'...';' pattern in the header the mime type is
\* application/octet-stream, and for every input the payload is defined and
\* is all of the input after its first comma, further commas included.
C9_PayloadAfterFirstComma ==
    decoded # <<>> =>
        /\ ~HeaderPattern(dataUrl) => decoded[1].mimeType = octetStream
        /\ decoded[1].base64 # undefined
        /\ Has(dataUrl, ",") => decoded[1].base64 = AfterFirst(dataUrl, ",")

----------------------------------------------------------------------------
(* C11 *)

\* C11: every call reads the credential when it starts: the key its
\* GoogleGenAI instance submits with is the ambient key of that moment, not a
\* key read by an earlier call, and it is that key for the rest of the call.
C11_KeyReadAtCallTime ==
    [][\A c \in Calls :
          /\ (pc[c] = "idle" /\ pc'[c] # "idle") => ai'[c] = API_KEY
          /\ pc[c] # "idle" => ai'[c] = ai[c]]_vars

\* The second call was made after the first had settled and the key changed.
C11_Witness ==
    /\ pc[1] \in {"returned", "failed"}
    /\ pc[2] = "submit"
    /\ ai[1] = "k1"
    /\ ai[2] = "k2"

----------------------------------------------------------------------------
(* C12 *)

\* The status call c observed last is Pending.
LastAnswerPending(c) ==
    \E i \in Indices(c, "answer") :
        /\ trace[c][i].msg = "Pending"
        /\ \A j \in Indices(c, "answer") : j <= i

\* A request of call c was rejected, or its callback threw.
Interrupted(c) ==
    result[c].message \in ServiceErrors \cup {"Failed to fetch", CallbackMsg}

Settled(c) == pc[c] \in {"returned", "failed"}

\* C12: the loop has no retry limit and no timeout. After a Pending status,
\* however many came before, the call waits and asks again, and nothing but a
\* rejected request or a throwing callback ends it; it returns, and without
\* such an interruption it settles, only once Done has been reported. When
\* every awaited promise settles and the service reports Done in the end, the
\* call settles.
C12_PollsUntilDone ==
    /\ [](\A c \in Calls :
            /\ (LastAnswerPending(c) /\ ~Interrupted(c)) => pc[c] \in {"delay", "poll"}
            /\ pc[c] = "returned" => DoneAnswers(c) # {}
            /\ (Settled(c) /\ ~Interrupted(c)) => DoneAnswers(c) # {})
    /\ (pc[1] = "submit") ~> Settled(1)

C12_Witness ==
    /\ PendingAnswers(1) = MaxPolls
    /\ pc[1] = "returned"

----------------------------------------------------------------------------
(* C13 *)

IsAnswer(e) == e.kind = "answer"

\* The job descriptors call c has received, in order.
AnswersOf(c) == SelectSeq(trace[c], IsAnswer)

\* The progress messages of a call that runs alone, with a callback that
\* does not throw, and is answered as call c was.
ProgressAlone(c) ==
    LET answers == AnswersOf(c)
    IN  (IF trace[c] = <<>> THEN <<>> ELSE <<Progress(SendingMsg, 0)>>)
            \o (IF answers = <<>> THEN <<>> ELSE <<Progress(WarmingMsg, 0)>>)
            \o [i \in 1..Len(answers) |->
                  IF answers[i].msg = "Pending" THEN Progress(CheckMsg, i)
                  ELSE Progress(CompleteMsg, 0)]

\* C13: of two calls that overlap in any way, each has the check counter, the
\* progress messages and the job descriptors handed back to the service that
\* it would have alone with the same answers: they follow from the call's
\* own answers, whatever the other call does.
C13_CallsShareNothing ==
    \A c \in Calls :
        /\ pollCount[c] = PendingAnswers(c)
        /\ ProgressOf(c) = ProgressAlone(c)
        /\ \A i \in Indices(c, "poll") :
             \E j \in Indices(c, "answer") :
                /\ j < i
                /\ \A k \in Indices(c, "answer") : k < i => k <= j
                /\ trace[c][i].n = trace[c][j].n

\* The two calls are in their loops, at different counts.
C13_Witness ==
    /\ pc[1] = "delay"
    /\ pc[2] = "poll"
    /\ pollCount[1] = 2
    /\ pollCount[2] = 1

----------------------------------------------------------------------------
(* C14 *)

\* The callback of call c has thrown.
CallbackThrew(c) ==
    \E i \in Indices(c, "throw") : trace[c][i].msg = CallbackMsg

\* C14: generateVideo does not guard its callback. When onProgress throws,
\* the call fails with what it threw, at that invocation: nothing follows the
\* message in the call, and no handle is returned. As long as it has not
\* thrown, the network operations are those the answers call for, whatever
\* callback was passed.
C14_CallbackUnguarded ==
    \A c \in Calls :
        /\ \A i \in Indices(c, "throw") :
             trace[c][i].msg = CallbackMsg =>
                /\ i = Len(trace[c])
                /\ trace[c][i - 1].kind = "progress"
        /\ CallbackThrew(c) =>
             /\ pc[c] = "failed"
             /\ result[c] = Thrown(CallbackMsg)
             /\ Count(c, "return") = 0
        /\ (trace[c] # <<>> /\ ~CallbackThrew(c)) =>
             /\ Count(c, "submit") = 1
             /\ Count(c, "delay") = PendingAnswers(c)
             /\ Count(c, "fetch") =
                  (IF operation[c].done /\ operation[c].response = FullResponse(VideoUri)
                   THEN 1 ELSE 0)

\* The callback threw at the second check message.
C14_Witness ==
    /\ result[1] = Thrown(CallbackMsg)
    /\ pollCount[1] = 2
    /\ trace[1][Len(trace[1]) - 1] = Progress(CheckMsg, 2)

----------------------------------------------------------------------------
(* C15 *)

\* C15: once a job descriptor with done = true has been received, the call
\* neither waits nor fetches the status again, and receives no further
\* descriptor; every re-fetch hands back the descriptor received last, which
\* is the one `operation` holds.
C15_DoneIsFinal ==
    \A c \in Calls :
        /\ \A i \in DoneAnswers(c) :
             \A j \in Indices(c, "delay") \cup Indices(c, "poll")
                        \cup Indices(c, "answer") : j <= i
        /\ \A i \in Indices(c, "poll") :
             \E j \in Indices(c, "answer") :
                /\ j < i
                /\ \A k \in Indices(c, "answer") : k < i => k <= j
                /\ trace[c][i].n = trace[c][j].n
                /\ trace[c][i].n = Cardinality({k \in Indices(c, "answer") : k < i})
        /\ \A j \in Indices(c, "answer") :
             (\A k \in Indices(c, "answer") : k <= j) => operation[c].rev = trace[c][j].n

\* Two re-fetches, the second with the descriptor the first was answered
\* with, and then Done.
C15_Witness ==
    /\ Count(1, "poll") = 2
    /\ \E i \in Indices(1, "poll") : trace[1][i].n = 2
    /\ DoneAnswers(1) # {}
    /\ pc[1] = "fetch"

----------------------------------------------------------------------------
(* Reading a step of the component *)

\* handleGenerate calls generateVideo in this step.
Started == pc[1] = "idle" /\ pc'[1] # "idle"

\* The rest of handleGenerate runs in this step, after generateVideo returned
\* or threw.
Resumed == pc[1] \in {"returned", "failed"} /\ pc'[1] = "idle"

\* handleGenerate runs with no image in this step, the upload error not
\* being shown already.
Refused ==
    /\ apiKeyReady
    /\ ~isLoading
    /\ imageFile = <<>>
    /\ error # <<UploadMsg>>
    /\ error' = <<UploadMsg>>

\* The failures of the model whose message holds the text looked for.
NotFoundErrors == {"Requested entity was not found."}

----------------------------------------------------------------------------
(* C16 *)

\* C16: when generateVideo fails with a message that contains 'Requested
\* entity was not found', handleGenerate sets the key-ready flag to false and
\* the error to the invalid-key text; when it fails with any other message the
\* error is that message, or the generic text if the message is empty, and
\* the flag keeps its value.
C16_FailureHandling ==
    [][(Resumed /\ pc[1] = "failed") =>
          IF result[1].message \in NotFoundErrors
          THEN /\ ~apiKeyReady'
               /\ error' = <<InvalidKeyMsg>>
          ELSE /\ apiKeyReady' = apiKeyReady
               /\ error' = <<IF result[1].message = "" THEN UnknownMsg
                             ELSE result[1].message>>]_vars

\* A failed generation has put the component back on the key selection
\* screen, under the invalid-key text.
C16_Witness ==
    /\ ~apiKeyReady
    /\ ~isLoading
    /\ keySelected = FALSE
    /\ pcCheck = "done"
    /\ pcSelect = "idle"
    /\ error = <<InvalidKeyMsg>>

----------------------------------------------------------------------------
(* C17 *)

\* C17: the caller releases every object URL it no longer shows, so at most
\* one object URL is unreleased, however many videos were generated.
C17_AtMostOneUnreleased == Cardinality(Unreleased) <= 1

----------------------------------------------------------------------------
(* C18 *)

\* What C18 says of every step but the end of a successful generation.
C18_Steps ==
    /\ Started =>
         /\ imageFile # <<>>
         /\ error' = <<>>
         /\ videoUrl' = <<>>
         /\ isLoading'
    /\ (isLoading /\ ~isLoading') => Resumed
    /\ Resumed => ~isLoading'
    /\ (Resumed /\ pc[1] = "failed") => (error' # <<>> /\ videoUrl' = <<>>)
    /\ (Resumed /\ pc[1] = "returned") => videoUrl' = <<result[1].handle>>
    /\ Refused => UNCHANGED <<callVars, isLoading, videoUrl>>

\* C18 as stated: handleGenerate with an image clears error and videoUrl and
\* sets isLoading before generateVideo is called; isLoading stays true until
\* generateVideo settles and is false afterwards, with videoUrl alone non-null
\* after a success and error alone after a failure; with no image only the
\* upload error is set.
C18_Original ==
    /\ [][C18_Steps]_vars
    /\ [][(Resumed /\ pc[1] = "returned") => error' = <<>>]_vars
    /\ [](pc[1] # "idle" => isLoading)
    /\ (pc[1] \in {"returned", "failed"}) ~> ~isLoading

\* C18, amended: as stated, except that after a success handleGenerate leaves
\* `error` as it finds it, which is null or the text that a failed key
\* selection dialog has put there during the generation.
C18_LoadingAndOutcome ==
    /\ [][C18_Steps]_vars
    /\ [][(Resumed /\ pc[1] = "returned") =>
             (error' = error /\ error \in {<<>>, <<DialogMsg>>})]_vars
    /\ [](pc[1] # "idle" => isLoading)
    /\ (pc[1] \in {"returned", "failed"}) ~> ~isLoading

\* A second generation is in flight, after a first that gave a video.
C18_Witness ==
    /\ isLoading
    /\ pc[1] = "poll"
    /\ blobCount = 1
    /\ videoUrl = <<>>
    /\ error = <<>>

----------------------------------------------------------------------------
(* C19 *)

\* C19: once handleSelectApiKey has set the key-ready flag, the flag is true
\* until a generation fails for a missing entity; the mount-time checkApiKey
\* does not set it back to false, whenever its result arrives.
C19_SelectionSticks == keySelected => apiKeyReady

----------------------------------------------------------------------------
(* C20 *)

\* C20: the credential appended to a call's download URL as "&key=" is the
\* credential its job was submitted with, whatever happens to the ambient
\* credential while the call is suspended.
C20_DownloadKeyIsSubmissionKey ==
    \A c \in Calls :
        fetchUrl[c] # "" =>
            fetchUrl[c] = UrlWithKey(DownloadLink(operation[c])[1], ai[c])

====
